---- MODULE Spec2Model ----
(***************************************************************************)
(* run-box: the command execution engine (executeCommand and the registry  *)
(* of active processes) as a state machine.  One action per handler of     *)
(* src/src/index.ts: the synchronous body of executeCommand, the stdout    *)
(* and stderr 'data' handlers, the timeout timer, the abort listener, the  *)
(* escalation timer, and the child's 'close' and 'error' handlers.         *)
(*                                                                         *)
(* Text is a sequence of characters; the character "E" stands for a        *)
(* character whose UTF-8 encoding takes two bytes, every other character   *)
(* takes one.  Timers are abstracted to pending / fired / cleared: a       *)
(* pending timer may fire at any later turn of the event loop.             *)
(***************************************************************************)
EXTENDS Integers, Sequences, FiniteSets, TLC

(* ---------------------------------------------------------------- bounds *)

\* Output chunks one process delivers at most (both streams together).
MaxChunks == 2

\* maxOutputBytes is drawn from 1..MaxCap.
MaxCap == 2

\* Calls of cancelProcess that find their process, per process.
MaxCancels == 1

\* Requests that arrive at the listener in one run of the daemon.
MaxRequests == 3

\* Termination signals (SIGTERM, SIGINT) delivered to the daemon.
MaxSignals == 2

\* The executions (calls of executeCommand) of one run of the daemon.
Execs == {1, 2}

\* Identifiers generateId can return.
Ids == {1, 2}

\* The chunks a process can write: one byte, two bytes in two characters,
\* two bytes in one character.
Chunks == {<<"a">>, <<"a", "b">>, <<"E">>}

Streams == {"stdout", "stderr"}

\* Exit statuses the OS reports for a started process; {} is "no code"
\* (null: the process was ended by a signal).
ExitCodes == {{}, {0}, {1}}

\* The code the 'close' event carries after a failed spawn (a negative errno).
SpawnErrno == {0 - 2}

\* err.message of the 'error' event.
ErrMessage == <<"spawn ENOENT">>

VARIABLES
    ex,               \* per execution: the closure state of one executeCommand call
    activeProcesses,  \* the registry: id -> execution whose child it holds
    sessions,         \* the session map: session id -> transport
    isShuttingDown,   \* the shutting-down flag
    sd,               \* the shutdown coordinator: position of shutdown() and what it did
    req,              \* per request slot: the suspended request handler
    transports,       \* per transport (protocol handler): session id, open or closed
    dispatched,          \* the latest dispatch decision of the request handler
    arrived           \* requests that have arrived so far

\* The HTTP side of the daemon.
daemon == <<sessions, isShuttingDown, sd, req, transports, dispatched, arrived>>

vars == <<ex, activeProcesses, sessions, isShuttingDown, sd, req, transports,
          dispatched, arrived>>

(* ------------------------------------------------------- pure operators *)

Min(a, b) == IF a < b THEN a ELSE b

ByteWidth(c) == IF c = "E" THEN 2 ELSE 1

RECURSIVE byteLength(_)
byteLength(chunk) ==
    IF chunk = <<>> THEN 0
    ELSE ByteWidth(Head(chunk)) + byteLength(Tail(chunk))

\* String.prototype.slice(0, n): the first n characters (UTF-16 units).
slice(text, n) == SubSeq(text, 1, Min(n, Len(text)))

\* `\n[OUTPUT TRUNCATED at ${maxOutputBytes} bytes]`
TruncationMarker(maxOutputBytes) ==
    "\n[OUTPUT TRUNCATED at " \o ToString(maxOutputBytes) \o " bytes]"

NoResult ==
    [stdout |-> <<>>, stderr |-> <<>>, exitCode |-> 0,
     truncated |-> FALSE, killed |-> FALSE]

\* The state of a call that has not been made yet.
IdleExec ==
    [proc            |-> "none",     \* none | alive | failed | gone
     errorSeen       |-> FALSE,      \* the 'error' handler has run
     id              |-> 0,
     maxOutputBytes  |-> 0,
     hasSignal       |-> FALSE,      \* options.signal was given
     aborted         |-> FALSE,      \* signal.aborted
     onProgress      |-> FALSE,      \* options.onProgress was given
     listening       |-> FALSE,      \* the once-listener for 'abort' is registered
     stdoutBuffer    |-> <<>>,
     stderrBuffer    |-> <<>>,
     totalBytes      |-> 0,
     killed          |-> FALSE,
     truncated       |-> FALSE,
     timeoutHandle   |-> "none",     \* none | pending | fired | cleared
     killHandle      |-> "none",
     resolved        |-> FALSE,
     result          |-> NoResult,
     \* history, read by the properties only
     sigterm         |-> 0,          \* process.kill(-pid, 'SIGTERM') calls of killChild
     sigkill         |-> 0,          \* process.kill(-pid, 'SIGKILL') calls of killChild's timer
     scheduled       |-> 0,          \* escalation timers killChild has set
     killReason      |-> "none",     \* reason of the killChild call that took effect
     killedAt        |-> 0,          \* chunks handled before that call
     outChunks       |-> <<>>,       \* everything delivered on stdout
     errChunks       |-> <<>>,       \* everything delivered on stderr
     nChunks         |-> 0,
     timeoutFired    |-> FALSE,      \* the timeout timer fired
     abortedAtCall   |-> FALSE,      \* signal.aborted at call time
     abortedLive     |-> FALSE,      \* the token signalled before the 'close' event
     closeCode       |-> {},         \* code of the 'close' event
     resolvedBy      |-> "none",     \* none | close | error
     allTerm         |-> 0,          \* SIGTERMs killAllProcesses sent to the group
     allKill         |-> 0,          \* SIGKILLs killAllProcesses sent to the group
     progress        |-> <<>>,       \* the calls of onProgress: stream and text
     cancelTerm      |-> 0,          \* SIGTERMs cancelProcess sent to the group
     cancelTimers    |-> 0,          \* 2-second timers of cancelProcess still pending
     cancelKill      |-> 0]          \* SIGKILLs those timers sent to the group

(* --------------------------------------------------------- the registry *)

\* What generateId can return: a string built from Date.now() and
\* Math.random(), which looks at no id handed out before.  With used = {}
\* that is the code; with the ids in use as used, the ids are assumed fresh.
generateId(used) == Ids \ used

UsedIds == {ex[e].id : e \in {x \in Execs : ex[x].proc # "none"}}

\* The first free one of the slots S, of which those in B are taken: which
\* slot a handler invocation, a transport object or a call occupies is not
\* observable.
First(S, B) == {s \in S \ B : \A t \in S \ B : s <= t}

\* The ids a fresh id is not: those in use, and every unused one but the
\* first.  Ids are opaque, so which unused one a call gets is not observable.
Taken == Ids \ First(Ids, UsedIds)

\* Mutant: executeCommand does not register the process at the spawn.
registerNothing(reg, id, child) == reg

register(reg, id, child) ==
    [i \in DOMAIN reg \cup {id} |-> IF i = id THEN child ELSE reg[i]]

\* Mutant: cleanup forgets activeProcesses.delete(id).
unregisterNever(reg, id) == reg

unregister(reg, id) == [i \in DOMAIN reg \ {id} |-> reg[i]]

getActiveProcessCount == Cardinality(DOMAIN activeProcesses)

(* ------------------------------------------------- closures of one call *)

\* Mutant: cleanup leaves the timeout timer running.
cleanupKeepsTimeout(x) ==
    [x EXCEPT !.killHandle = IF @ = "pending" THEN "cleared" ELSE @]

\* cleanup, the timers' part (the registry's part is unregister).
cleanup(x) ==
    [x EXCEPT
       !.timeoutHandle = IF @ = "pending" THEN "cleared" ELSE @,
       !.killHandle    = IF @ = "pending" THEN "cleared" ELSE @]

\* Mutant: killChild without the `if (killed) return` latch.
killChildNoLatch(x, reason) ==
    [x EXCEPT
       !.killed     = TRUE,
       !.truncated  = (reason = "truncation"),
       !.sigterm    = @ + 1,
       !.killHandle = "pending",
       !.scheduled  = @ + 1,
       !.killReason = reason,
       !.killedAt   = x.nChunks]

killChild(x, reason) ==
    IF x.killed THEN x
    ELSE [x EXCEPT
            !.killed     = TRUE,
            !.truncated  = (reason = "truncation"),
            !.sigterm    = @ + 1,
            !.killHandle = "pending",
            !.scheduled  = @ + 1,
            !.killReason = reason,
            !.killedAt   = x.nChunks]

\* Mutant: both streams are appended to stdoutBuffer.
appendStdoutOnly(x, stream, text) == [x EXCEPT !.stdoutBuffer = @ \o text]

append(x, stream, text) ==
    IF stream = "stdout"
    THEN [x EXCEPT !.stdoutBuffer = @ \o text]
    ELSE [x EXCEPT !.stderrBuffer = @ \o text]

\* Mutant: on overflow the flag is set but killChild is not called.
handleDataNoKill(x, stream, chunk) ==
    IF x.totalBytes + byteLength(chunk) > x.maxOutputBytes
    THEN [append(x, stream, slice(chunk, x.maxOutputBytes - x.totalBytes)) EXCEPT
            !.totalBytes = x.maxOutputBytes,
            !.truncated  = TRUE]
    ELSE [append(x, stream, chunk) EXCEPT !.totalBytes = @ + byteLength(chunk)]

\* Mutant: the overflowing chunk is appended whole.
handleDataNoSlice(x, stream, chunk) ==
    IF x.totalBytes + byteLength(chunk) > x.maxOutputBytes
    THEN killChild([append(x, stream, chunk) EXCEPT
                      !.totalBytes = x.maxOutputBytes],
                   "truncation")
    ELSE [append(x, stream, chunk) EXCEPT !.totalBytes = @ + byteLength(chunk)]

\* Mutant: the overflow branch sets truncated itself, whatever killChild did.
handleDataMarksAlways(x, stream, chunk) ==
    IF x.totalBytes + byteLength(chunk) > x.maxOutputBytes
    THEN [killChild([append(x, stream,
                            slice(chunk, x.maxOutputBytes - x.totalBytes)) EXCEPT
                       !.totalBytes = x.maxOutputBytes],
                    "truncation") EXCEPT !.truncated = TRUE]
    ELSE [append(x, stream, chunk) EXCEPT !.totalBytes = @ + byteLength(chunk)]

\* `if (onProgress) onProgress(text)`.
forward(x, stream, text) ==
    IF x.onProgress
    THEN [x EXCEPT !.progress = Append(@, [stream |-> stream, text |-> text])]
    ELSE x

handleData(x, stream, chunk) ==
    LET text  == chunk
        bytes == byteLength(chunk)
    IN  IF x.totalBytes + bytes > x.maxOutputBytes
        THEN LET remaining == x.maxOutputBytes - x.totalBytes
                 partial   == slice(text, remaining)
             IN  killChild([append(x, stream, partial) EXCEPT
                              !.totalBytes = x.maxOutputBytes],
                           "truncation")
        ELSE forward([append(x, stream, text) EXCEPT !.totalBytes = @ + bytes],
                     stream, text)

\* Mutant: a later resolve replaces the settled value.
resolveAgain(x, r, by) ==
    [x EXCEPT !.resolved = TRUE, !.result = r, !.resolvedBy = by]

\* resolve of the promise: only the first call settles it.
resolve(x, r, by) ==
    IF x.resolved THEN x
    ELSE [x EXCEPT !.resolved = TRUE, !.result = r, !.resolvedBy = by]

\* Mutant: code ?? 0.
exitCodeOrZero(code) == IF code = {} THEN 0 ELSE CHOOSE c \in code : TRUE

\* code ?? -1
exitCodeOr(code) == IF code = {} THEN 0 - 1 ELSE CHOOSE c \in code : TRUE

\* Mutant: the exit code is reported as the OS gave it, killed or not.
onCloseOsCode(x, code) ==
    LET c == cleanup(x)
        b == IF c.truncated
             THEN [c EXCEPT !.stdoutBuffer =
                                @ \o <<TruncationMarker(c.maxOutputBytes)>>]
             ELSE c
    IN  resolve(b,
                [stdout    |-> b.stdoutBuffer,
                 stderr    |-> b.stderrBuffer,
                 exitCode  |-> exitCodeOr(code),
                 truncated |-> b.truncated,
                 killed    |-> b.killed],
                "close")

onClose(x, code) ==
    LET c == cleanup(x)
        b == IF c.truncated
             THEN [c EXCEPT !.stdoutBuffer =
                                @ \o <<TruncationMarker(c.maxOutputBytes)>>]
             ELSE c
    IN  resolve(b,
                [stdout    |-> b.stdoutBuffer,
                 stderr    |-> b.stderrBuffer,
                 exitCode  |-> IF b.killed THEN 0 - 1 ELSE exitCodeOr(code),
                 truncated |-> b.truncated,
                 killed    |-> b.killed],
                "close")

\* Mutant: the error result reports the closure's flags.
onErrorFlags(x, message) ==
    LET c == cleanup(x)
    IN  resolve(c,
                [stdout    |-> c.stdoutBuffer,
                 stderr    |-> message,
                 exitCode  |-> 0 - 1,
                 truncated |-> c.truncated,
                 killed    |-> c.killed],
                "error")

onError(x, message) ==
    LET c == cleanup(x)
    IN  resolve(c,
                [stdout    |-> c.stdoutBuffer,
                 stderr    |-> message,
                 exitCode  |-> 0 - 1,
                 truncated |-> FALSE,
                 killed    |-> FALSE],
                "error")

\* Mutant: an already-aborted signal only gets the listener.
startExecListenOnly(x, id, cap, hasSignal, aborted, spawned) ==
    [x EXCEPT
       !.proc = IF spawned THEN "alive" ELSE "failed",
       !.id = id,
       !.maxOutputBytes = cap,
       !.hasSignal = hasSignal,
       !.aborted = aborted,
       !.abortedAtCall = aborted,
       !.abortedLive = aborted,
       !.listening = hasSignal,
       !.timeoutHandle = "pending"]

\* The synchronous body of executeCommand after spawn returned.
startExec(x, id, cap, hasSignal, aborted, spawned) ==
    LET s == [x EXCEPT
                !.proc = IF spawned THEN "alive" ELSE "failed",
                !.id = id,
                !.maxOutputBytes = cap,
                !.hasSignal = hasSignal,
                !.aborted = aborted,
                !.abortedAtCall = aborted,
                !.abortedLive = aborted]
        k == IF hasSignal /\ aborted THEN killChild(s, "cancel")
             ELSE IF hasSignal THEN [s EXCEPT !.listening = TRUE]
             ELSE s
    IN  [k EXCEPT !.timeoutHandle = "pending"]

(* ------------------------------------------------- the daemon's values *)

\* Request slots: handlers of the HTTP server that can be suspended at once.
Reqs == {1, 2}

\* Transports (protocol handlers) that handshakes can create.
Handlers == {1, 2}

\* Session identifiers randomUUID can return; "none" is an absent header.
Tokens == {"t1", "t2"}

Sids == {"none"} \cup Tokens

\* Request bodies: an initialize request, a tools/call of execute, anything else.
Bodies == {"initialize", "call", "other"}

Request(method, path, sid, body) ==
    [method |-> method, path |-> path, sid |-> sid, body |-> body]

\* What can arrive: every POST, GET and DELETE on /mcp, GET /health, and two
\* requests no route matches.
Requests ==
    {Request("POST", "/mcp", sid, body) : sid \in Sids, body \in Bodies}
    \cup {Request(m, "/mcp", sid, "none") : m \in {"GET", "DELETE"}, sid \in Sids}
    \cup {Request("GET", "/health", "none", "none"),
          Request("PUT", "/mcp", "none", "none"),
          Request("GET", "/other", "none", "none")}

NoRequest == Request("none", "none", "none", "none")

\* POSTs on /mcp whose body is not JSON.
Malformed == {Request("POST", "/mcp", sid, "malformed") : sid \in Sids}

\* jsonResponse(res, status, body): status, JSON-RPC error code, message.
Response(status, code, message) ==
    [status |-> status, code |-> code, message |-> message]

Unavailable ==
    Response(503, 0 - 32000, "Service Unavailable: server is shutting down")

HealthOk == Response(200, 0, "ok")

SessionNotFound == Response(404, 0 - 32000, "Session not found")

BadRequest ==
    Response(400, 0 - 32600,
             "Bad Request: missing session ID or not an initialize request")

MissingHeader == Response(400, 0 - 32600, "Missing Mcp-Session-Id header")

NotFound == Response(404, 0, "Not found")

InternalError == Response(500, 0 - 32603, "Internal server error")

\* The request went to transport.handleRequest, which answers it.
Forwarded == Response(0, 0, "forwarded")

NoResponse == Response(0, 0, "none")

IdleReq ==
    [pc      |-> "idle",    \* idle | parsing | connecting | validating
     request |-> NoRequest,
     flag    |-> FALSE,     \* isShuttingDown when the request arrived
     handler |-> 0]         \* the transport it created or was forwarded to

NoDispatch ==
    [n        |-> 0,         \* the number of decisions made, modulo 2
     request  |-> NoRequest,
     flag     |-> FALSE,
     known    |-> FALSE,    \* the session id was in the map at the decision
     response |-> NoResponse,
     draining |-> FALSE,    \* isShuttingDown at the decision
     handler  |-> 0,
     created  |-> FALSE,    \* a transport was created for it
     \* the latest tool call that finished its validation
     access   |-> "none",   \* none | ok | denied: what access(cwd, R_OK) answered
     result   |-> "none",   \* none | isError | executing: what the call did
     thrown   |-> FALSE,    \* the decision was made by the catch block
     \* the latest exception caught
     caught   |-> "none"]   \* none | unsent | sent: res.headersSent at the catch

NoTransport == [state |-> "none", sessionId |-> "none"]   \* none | open | closed

RunningCoordinator ==
    [pc             |-> "running",  \* running | closing | terminating | stopping | exited,
                                    \* abandoned: shutdown() was left by an exception
     signals        |-> 0,          \* termination signals delivered
     drains         |-> 0,          \* times shutdown() got past its guard
     closes         |-> 0,          \* transport.close() calls of shutdown()
     killAlls       |-> 0,          \* killAllProcesses calls
     interval       |-> "none",     \* none | active | cleared
     grace          |-> "none",     \* none | pending | fired
     listenerCloses |-> 0,          \* httpServer.close calls
     exitCode       |-> {}]         \* process.exit(code)

(* ------------------------------------------------------ request routing *)

\* Mutant: validateCwd returns true whatever access answers.
validateCwdAlways(accessOk) == TRUE

\* validateCwd: true when access(cwd, R_OK) resolves, false when it throws.
validateCwd(accessOk) == IF accessOk THEN TRUE ELSE FALSE

\* parseBody: FALSE when JSON.parse throws and the promise rejects.
parseBody(body) == body # "malformed"

\* Mutant: the catch block answers whatever was sent before.
catchAlwaysAnswers(headersSent) == InternalError

\* The catch block of the request handler: what it answers.
catch(headersSent) == IF headersSent THEN NoResponse ELSE InternalError

\* `if (sessionId ...)`: an absent header is undefined.
present(sid) == sid # "none"

has(sess, sid) == sid \in DOMAIN sess

isInitializeRequest(body) == body = "initialize"

Decision(response, handler, create) ==
    [response |-> response, handler |-> handler, create |-> create]

\* Mutant: the handshake branch does not look at the session id header.
handlePostMcpAnyHandshake(sess, q) ==
    IF present(q.sid) /\ has(sess, q.sid)
    THEN Decision(Forwarded, sess[q.sid], FALSE)
    ELSE IF isInitializeRequest(q.body)
    THEN Decision(Forwarded, 0, TRUE)
    ELSE IF present(q.sid) /\ ~has(sess, q.sid)
    THEN Decision(SessionNotFound, 0, FALSE)
    ELSE Decision(BadRequest, 0, FALSE)

handlePostMcp(sess, q) ==
    IF present(q.sid) /\ has(sess, q.sid)
    THEN Decision(Forwarded, sess[q.sid], FALSE)
    ELSE IF ~present(q.sid) /\ isInitializeRequest(q.body)
    THEN Decision(Forwarded, 0, TRUE)
    ELSE IF present(q.sid) /\ ~has(sess, q.sid)
    THEN Decision(SessionNotFound, 0, FALSE)
    ELSE Decision(BadRequest, 0, FALSE)

\* Mutant: a header that names no session is reported as a missing header.
handleGetMcpMissing(sess, q) ==
    IF ~present(q.sid) \/ ~has(sess, q.sid)
    THEN Decision(MissingHeader, 0, FALSE)
    ELSE Decision(Forwarded, sess[q.sid], FALSE)

handleGetMcp(sess, q) ==
    IF ~present(q.sid)
    THEN Decision(MissingHeader, 0, FALSE)
    ELSE IF ~has(sess, q.sid)
    THEN Decision(SessionNotFound, 0, FALSE)
    ELSE Decision(Forwarded, sess[q.sid], FALSE)

handleDeleteMcp(sess, q) ==
    IF ~present(q.sid)
    THEN Decision(MissingHeader, 0, FALSE)
    ELSE IF ~has(sess, q.sid)
    THEN Decision(SessionNotFound, 0, FALSE)
    ELSE Decision(Forwarded, sess[q.sid], FALSE)

\* Mutant: the request handler without its isShuttingDown check.
requestHandlerNoFlag(flag, sess, q) ==
    IF q.method = "GET" /\ q.path = "/health"
    THEN Decision(HealthOk, 0, FALSE)
    ELSE IF q.path = "/mcp" /\ q.method = "POST"
    THEN Decision(NoResponse, 0, FALSE)
    ELSE IF q.path = "/mcp" /\ q.method = "GET"
    THEN handleGetMcp(sess, q)
    ELSE IF q.path = "/mcp" /\ q.method = "DELETE"
    THEN handleDeleteMcp(sess, q)
    ELSE Decision(NotFound, 0, FALSE)

\* The request handler up to its first suspension; NoResponse: a POST on
\* /mcp, suspended in parseBody.
requestHandler(flag, sess, q) ==
    IF flag
    THEN Decision(Unavailable, 0, FALSE)
    ELSE IF q.method = "GET" /\ q.path = "/health"
    THEN Decision(HealthOk, 0, FALSE)
    ELSE IF q.path = "/mcp" /\ q.method = "POST"
    THEN Decision(NoResponse, 0, FALSE)
    ELSE IF q.path = "/mcp" /\ q.method = "GET"
    THEN handleGetMcp(sess, q)
    ELSE IF q.path = "/mcp" /\ q.method = "DELETE"
    THEN handleDeleteMcp(sess, q)
    ELSE Decision(NotFound, 0, FALSE)

\* Mutant: the close hook empties the map.
oncloseClear(sess, sid) == << >>

\* transport.onclose.
onclose(sess, sid) ==
    IF present(sid) THEN [t \in DOMAIN sess \ {sid} |-> sess[t]] ELSE sess

\* Mutant: one transport held by the module serves every session.
onsessioninitializedShared(sess, sid, h) ==
    [t \in DOMAIN sess \cup {sid} |-> h]

\* onsessioninitialized: sessions.set(sid, transport).
onsessioninitialized(sess, sid, h) ==
    [t \in DOMAIN sess \cup {sid} |-> IF t = sid THEN h ELSE sess[t]]

(* ------------------------------------------------------------- shutdown *)

\* The state shutdown() and killAllProcesses read and write.
World ==
    [isShuttingDown  |-> isShuttingDown,
     sessions        |-> sessions,
     transports      |-> transports,
     activeProcesses |-> activeProcesses,
     ex              |-> ex,
     req             |-> req,
     sd              |-> sd]

Tracked(w) == {w.activeProcesses[i] : i \in DOMAIN w.activeProcesses}

\* transport.close(), which runs the transport's onclose.
close(w, h) ==
    [w EXCEPT
       !.transports[h].state = "closed",
       !.sessions = onclose(@, w.transports[h].sessionId)]

\* httpServer.closeAllConnections(); httpServer.close(cb).  A request whose
\* body has not arrived loses its socket and never reaches handlePostMcp.
stop(w) ==
    [w EXCEPT
       !.req = [r \in Reqs |->
                  IF w.req[r].pc = "parsing" THEN IdleReq ELSE w.req[r]],
       !.sd.listenerCloses = @ + 1,
       !.sd.pc = "stopping"]

\* Mutant: killAllProcesses sends SIGKILL along with SIGTERM.
killAllProcessesKillNow(w) ==
    IF DOMAIN w.activeProcesses = {}
    THEN [w EXCEPT !.sd.killAlls = @ + 1]
    ELSE [w EXCEPT
            !.sd.killAlls = @ + 1,
            !.sd.interval = "active",
            !.sd.grace = "pending",
            !.ex = [e \in Execs |->
                      IF e \in Tracked(w)
                      THEN [w.ex[e] EXCEPT !.allTerm = @ + 1, !.allKill = @ + 1]
                      ELSE w.ex[e]]]

\* killAllProcesses up to its await: SIGTERM to every tracked group, the
\* polling interval and the grace timer set.
killAllProcesses(w) ==
    IF DOMAIN w.activeProcesses = {}
    THEN [w EXCEPT !.sd.killAlls = @ + 1]
    ELSE [w EXCEPT
            !.sd.killAlls = @ + 1,
            !.sd.interval = "active",
            !.sd.grace = "pending",
            !.ex = [e \in Execs |->
                      IF e \in Tracked(w)
                      THEN [w.ex[e] EXCEPT !.allTerm = @ + 1]
                      ELSE w.ex[e]]]

\* Mutant: cancelProcess terminates through the execution's killChild.
cancelProcessKillsChild(w, id) ==
    IF id \notin DOMAIN w.activeProcesses
    THEN w
    ELSE LET child == w.activeProcesses[id]
         IN  [w EXCEPT
                !.ex[child] = [killChild(@, "cancel") EXCEPT
                                 !.cancelTerm = @ + 1]]

\* Mutant: cancelProcess takes the process out of the registry.
cancelProcessUnregisters(w, id) ==
    IF id \notin DOMAIN w.activeProcesses
    THEN w
    ELSE LET child == w.activeProcesses[id]
         IN  [w EXCEPT
                !.ex[child].cancelTerm   = @ + 1,
                !.ex[child].cancelTimers = @ + 1,
                !.activeProcesses = unregister(@, id)]

\* cancelProcess(id): false (and nothing else) for an id the registry does
\* not hold; otherwise SIGTERM to the group and a 2-second timer.
cancelProcess(w, id) ==
    IF id \notin DOMAIN w.activeProcesses
    THEN w
    ELSE LET child == w.activeProcesses[id]
         IN  [w EXCEPT
                !.ex[child].cancelTerm   = @ + 1,
                !.ex[child].cancelTimers = @ + 1]

\* The promise of killAllProcesses resolves: shutdown() goes on if it is
\* waiting for it.
resolved(w) == IF w.sd.pc = "terminating" THEN stop(w) ELSE w

\* Mutant: shutdown() does not await killAllProcesses.
terminateNoAwait(w) == stop(killAllProcesses([w EXCEPT !.sessions = << >>]))

\* shutdown() after the loop over the sessions.
terminate(w) ==
    LET k == killAllProcesses([w EXCEPT !.sessions = << >>])
    IN  IF DOMAIN w.activeProcesses = {}
        THEN stop(k)
        ELSE [k EXCEPT !.sd.pc = "terminating"]

\* The loop over sessions.values() up to its next await: the worlds it can
\* leave, one per transport the live iteration can visit next.
closeSessions(w) ==
    IF DOMAIN w.sessions = {}
    THEN {terminate(w)}
    ELSE {[close(w, w.sessions[t]) EXCEPT
             !.sd.closes = @ + 1,
             !.sd.pc = "closing"] : t \in DOMAIN w.sessions}

\* Mutant: shutdown() without its guard.
shutdownNoGuard(w) ==
    closeSessions([w EXCEPT !.isShuttingDown = TRUE, !.sd.drains = @ + 1])

shutdown(w) ==
    IF w.isShuttingDown
    THEN {w}
    ELSE closeSessions([w EXCEPT !.isShuttingDown = TRUE, !.sd.drains = @ + 1])

\* Mutant: the grace timer kills and leaves the promise pending.
graceExpiryNoResolve(w) ==
    [w EXCEPT
       !.sd.interval = "cleared",
       !.sd.grace = "fired",
       !.ex = [e \in Execs |->
                 IF e \in Tracked(w)
                 THEN [w.ex[e] EXCEPT !.allKill = @ + 1]
                 ELSE w.ex[e]]]

\* The grace timer of killAllProcesses.
graceExpiry(w) ==
    resolved([w EXCEPT
                !.sd.interval = "cleared",
                !.sd.grace = "fired",
                !.ex = [e \in Execs |->
                          IF e \in Tracked(w)
                          THEN [w.ex[e] EXCEPT !.allKill = @ + 1]
                          ELSE w.ex[e]]])

\* Mutant: the poll stops polling and leaves the promise pending.
pollNoResolve(w) == [w EXCEPT !.sd.interval = "cleared"]

\* The polling interval of killAllProcesses finding the registry empty.
poll(w) == resolved([w EXCEPT !.sd.interval = "cleared"])

(* -------------------------------------------------------------- actions *)

Init ==
    /\ ex = [e \in Execs |-> IdleExec]
    /\ activeProcesses = << >>
    /\ sessions = << >>
    /\ isShuttingDown = FALSE
    /\ sd = RunningCoordinator
    /\ req = [r \in Reqs |-> IdleReq]
    /\ transports = [h \in Handlers |-> NoTransport]
    /\ dispatched = NoDispatch
    /\ arrived = 0

\* executeCommand(options): lines 217-303, one turn.
ExecuteCommand(e, id, cap, hasSignal, aborted, spawned, onProgress) ==
    /\ ex[e].proc = "none"
    /\ ex' = [ex EXCEPT ![e] =
                startExec([@ EXCEPT !.onProgress = onProgress],
                          id, cap, hasSignal, aborted, spawned)]
    /\ activeProcesses' = register(activeProcesses, id, e)
    /\ UNCHANGED daemon

\* Data as it would be with buffers shared by the module instead of held by
\* each call's closure: the chunk reaches every running execution.
DataSharedBuffers(e, stream, chunk) ==
    /\ ex[e].proc = "alive"
    /\ ex[e].nChunks < MaxChunks
    /\ ex' = [x \in Execs |->
                IF x = e
                THEN [handleData(ex[x], stream, chunk) EXCEPT
                        !.nChunks   = @ + 1,
                        !.outChunks = IF stream = "stdout" THEN @ \o chunk ELSE @,
                        !.errChunks = IF stream = "stderr" THEN @ \o chunk ELSE @]
                ELSE IF ex[x].proc = "alive"
                     THEN handleData(ex[x], stream, chunk)
                     ELSE ex[x]]
    /\ UNCHANGED <<activeProcesses, daemon>>

\* child.stdout / child.stderr 'data'.
Data(e, stream, chunk) ==
    /\ ex[e].proc = "alive"
    /\ ex[e].nChunks < MaxChunks
    /\ ex' = [ex EXCEPT ![e] =
                [handleData(@, stream, chunk) EXCEPT
                   !.nChunks   = @ + 1,
                   !.outChunks = IF stream = "stdout" THEN @ \o chunk ELSE @,
                   !.errChunks = IF stream = "stderr" THEN @ \o chunk ELSE @]]
    /\ UNCHANGED <<activeProcesses, daemon>>

\* The timeout timer fires.  After a failed spawn the 'error' event is
\* emitted on the next tick, before any timer can fire.
Timeout(e) ==
    /\ ex[e].timeoutHandle = "pending"
    /\ ~(ex[e].proc = "failed" /\ ~ex[e].errorSeen)
    /\ ex' = [ex EXCEPT ![e] =
                killChild([@ EXCEPT !.timeoutHandle = "fired",
                                    !.timeoutFired = TRUE], "timeout")]
    /\ UNCHANGED <<activeProcesses, daemon>>

\* The caller's AbortSignal signals; the once-listener, if registered, runs.
Abort(e) ==
    /\ ex[e].proc # "none"
    /\ ex[e].hasSignal
    /\ ~ex[e].aborted
    /\ ex' = [ex EXCEPT ![e] =
                LET a == [@ EXCEPT
                            !.aborted = TRUE,
                            !.abortedLive =
                                @ \/ (ex[e].proc \in {"alive", "failed"})]
                IN  IF a.listening
                    THEN killChild([a EXCEPT !.listening = FALSE], "cancel")
                    ELSE a]
    /\ UNCHANGED <<activeProcesses, daemon>>

\* The escalation timer set by killChild fires.
Escalate(e) ==
    /\ ex[e].killHandle = "pending"
    /\ ~(ex[e].proc = "failed" /\ ~ex[e].errorSeen)
    /\ ex' = [ex EXCEPT ![e] =
                [@ EXCEPT !.killHandle = "fired", !.sigkill = @ + 1]]
    /\ UNCHANGED <<activeProcesses, daemon>>

\* child 'close': of a started process, or after the 'error' of a failed spawn.
Close(e, code) ==
    /\ \/ ex[e].proc = "alive" /\ code # SpawnErrno
       \/ ex[e].proc = "failed" /\ ex[e].errorSeen /\ code = SpawnErrno
    /\ ex' = [ex EXCEPT ![e] =
                [onClose(@, code) EXCEPT !.proc = "gone", !.closeCode = code]]
    /\ activeProcesses' = unregister(activeProcesses, ex[e].id)
    /\ UNCHANGED daemon

\* child 'error': the process could not be spawned.
Error(e) ==
    /\ ex[e].proc = "failed"
    /\ ~ex[e].errorSeen
    /\ ex' = [ex EXCEPT ![e] =
                [onError(@, ErrMessage) EXCEPT !.errorSeen = TRUE]]
    /\ activeProcesses' = unregister(activeProcesses, ex[e].id)
    /\ UNCHANGED daemon

\* One step of the system: any handler of any execution in E, called with a
\* cap in Caps and, for TRUE in Callbacks, with a progress callback, the
\* process of execution e writing chunks of Output[e] and exiting with a
\* status in Codes; generateId avoids the ids in Used.
Step(E, Caps, Output, Codes, Callbacks, Used) ==
    \/ \E e \in E, id \in generateId(Used), cap \in Caps,
          hasSignal \in BOOLEAN, aborted \in BOOLEAN, spawned \in BOOLEAN,
          onProgress \in Callbacks :
          /\ e \in First(E, {x \in E : ex[x].proc # "none"})
          /\ aborted => hasSignal
          /\ ExecuteCommand(e, id, cap, hasSignal, aborted, spawned, onProgress)
    \/ \E e \in E, stream \in Streams :
          \E chunk \in Output[e] : Data(e, stream, chunk)
    \/ \E e \in E : Timeout(e)
    \/ \E e \in E : Abort(e)
    \/ \E e \in E : Escalate(e)
    \/ \E e \in E, code \in Codes \cup {SpawnErrno} : Close(e, code)
    \/ \E e \in E : Error(e)

\* Concurrent executions, each command writing its own one-byte character
\* under a cap of one byte.
OwnOutput == [e \in Execs |-> {<<IF e = 1 THEN "a" ELSE "b">>}]

Next == Step(Execs, {1}, OwnOutput, {{}, {0}}, {FALSE}, Taken)

Spec == Init /\ [][Next]_vars

\* One execution alone, its command writing any of Chunks under any cap,
\* with and without a progress callback.
AnyOutput == [e \in Execs |-> Chunks]

ExecNext == Step({1}, 1..MaxCap, AnyOutput, ExitCodes, BOOLEAN, Taken)

\* Concurrent and successive executions with the ids as generateId computes
\* them, checked against nothing.
IdNext == Step(Execs, {1}, OwnOutput, {{0}}, {FALSE}, {})

IdSpec == Init /\ [][IdNext]_vars

ExecSpec == Init /\ [][ExecNext]_vars

(* ---------------------------------------------------- the daemon's steps *)

\* The next value of a counter kept modulo 2.
Tick(c) == (c + 1) % 2

\* The process has not exited.
Up == sd.pc # "exited"

\* The listener accepts connections until httpServer.close.
Listening == sd.pc \in {"running", "closing", "terminating", "abandoned"}

Install(w) ==
    /\ isShuttingDown' = w.isShuttingDown
    /\ sessions' = w.sessions
    /\ transports' = w.transports
    /\ ex' = w.ex
    /\ req' = w.req
    /\ sd' = w.sd
    /\ activeProcesses' = w.activeProcesses
    /\ UNCHANGED <<dispatched, arrived>>

\* Handshakes on their way to a new transport.
Handshaking == {r \in Reqs : /\ req[r].pc = "parsing"
                             /\ ~present(req[r].request.sid)
                             /\ isInitializeRequest(req[r].request.body)}

Unused == {h \in Handlers : transports[h].state = "none"}

\* Session ids randomUUID has returned.
Issued == {transports[h].sessionId : h \in Handlers} \ {"none"}

\* A request arrives and its handler runs up to its first suspension.
Arrive(r, q) ==
    /\ Up /\ Listening
    /\ r \in First(Reqs, {x \in Reqs : req[x].pc # "idle"})
    /\ arrived < MaxRequests
    /\ (~present(q.sid) /\ isInitializeRequest(q.body)) =>
          Cardinality(Handshaking) < Cardinality(Unused)
    /\ LET d == requestHandler(isShuttingDown, sessions, q)
       IN  /\ arrived' = arrived + 1
           /\ IF d.response = NoResponse
              THEN /\ req' = [req EXCEPT ![r] =
                                [pc      |-> "parsing",
                                 request |-> q,
                                 flag    |-> isShuttingDown,
                                 handler |-> 0]]
                   /\ UNCHANGED dispatched
              ELSE /\ dispatched' =
                         [n        |-> Tick(dispatched.n),
                          request  |-> q,
                          flag     |-> isShuttingDown,
                          known    |-> has(sessions, q.sid),
                          response |-> d.response,
                          draining |-> isShuttingDown,
                          handler  |-> d.handler,
                          created  |-> FALSE,
                          access   |-> dispatched.access,
                          result   |-> dispatched.result,
                          thrown   |-> FALSE,
                          caught   |-> dispatched.caught]
                   /\ UNCHANGED req
    /\ UNCHANGED <<ex, activeProcesses, sessions, isShuttingDown, sd, transports>>

\* parseBody settles: resolved, handlePostMcp runs up to its first await; h
\* is the transport it forwards to or creates (0: neither); rejected, the
\* catch block answers.
Parsed(r, h) ==
    /\ Up
    /\ req[r].pc = "parsing"
    /\ LET q == req[r].request
           d == IF parseBody(q.body)
                THEN handlePostMcp(sessions, q)
                ELSE Decision(catch(FALSE), 0, FALSE)
       IN  /\ IF d.create THEN h \in First(Handlers, Handlers \ Unused)
                          ELSE h = d.handler
           /\ dispatched' =
                 [n        |-> Tick(dispatched.n),
                  request  |-> q,
                  flag     |-> req[r].flag,
                  known    |-> has(sessions, q.sid),
                  response |-> d.response,
                  draining |-> isShuttingDown,
                  handler  |-> h,
                  created  |-> d.create,
                  access   |-> dispatched.access,
                  result   |-> dispatched.result,
                  thrown   |-> ~parseBody(q.body),
                  caught   |-> IF parseBody(q.body) THEN dispatched.caught
                                                   ELSE "unsent"]
           /\ transports' = IF d.create
                            THEN [transports EXCEPT ![h].state = "open"]
                            ELSE transports
           /\ req' = [req EXCEPT ![r] =
                        IF d.create
                        THEN [@ EXCEPT !.pc = "connecting", !.handler = h]
                        ELSE IF d.response = Forwarded /\ q.body = "call"
                        THEN [@ EXCEPT !.pc = "validating", !.handler = h]
                        ELSE IdleReq]
    /\ UNCHANGED <<ex, activeProcesses, sessions, isShuttingDown, sd, arrived>>

\* The new transport handles the handshake: it takes a fresh session id and
\* onsessioninitialized runs.
Connected(r, sid) ==
    /\ Up
    /\ req[r].pc = "connecting"
    /\ sid \in Tokens \ Issued
    /\ sessions' = onsessioninitialized(sessions, sid, req[r].handler)
    /\ transports' = [transports EXCEPT ![req[r].handler].sessionId = sid]
    /\ req' = [req EXCEPT ![r] = IdleReq]
    /\ UNCHANGED <<ex, activeProcesses, isShuttingDown, sd, dispatched, arrived>>

\* The execute tool: access(cwd, R_OK) has answered (ok: it resolved).  When
\* validateCwd returns true the handler calls executeCommand, otherwise it
\* returns an error result.
Validated(r, e, id, ok) ==
    /\ Up
    /\ req[r].pc = "validating"
    /\ IF validateCwd(ok)
       THEN /\ e \in First(Execs, {x \in Execs : ex[x].proc # "none"})
            /\ ex' = [ex EXCEPT ![e] = startExec(@, id, 1, FALSE, FALSE, TRUE)]
            /\ activeProcesses' = register(activeProcesses, id, e)
       ELSE UNCHANGED <<ex, activeProcesses>>
    /\ req' = [req EXCEPT ![r] = IdleReq]
    /\ dispatched' = [dispatched EXCEPT
                        !.access = IF ok THEN "ok" ELSE "denied",
                        !.result = IF validateCwd(ok) THEN "executing"
                                                      ELSE "isError"]
    /\ UNCHANGED <<sessions, isShuttingDown, sd, transports, arrived>>

\* The awaited call into the protocol handler (mcpServer.connect or
\* transport.handleRequest) throws, with or without a response begun, and
\* the catch block of the request handler runs.
Thrown(r, headersSent) ==
    /\ Up
    /\ req[r].pc \in {"connecting", "validating"}
    /\ dispatched' =
          [n        |-> Tick(dispatched.n),
           request  |-> req[r].request,
           flag     |-> req[r].flag,
           known    |-> has(sessions, req[r].request.sid),
           response |-> catch(headersSent),
           draining |-> isShuttingDown,
           handler  |-> req[r].handler,
           created  |-> FALSE,
           access   |-> dispatched.access,
           result   |-> dispatched.result,
           thrown   |-> TRUE,
           caught   |-> IF headersSent THEN "sent" ELSE "unsent"]
    /\ req' = [req EXCEPT ![r] = IdleReq]
    /\ UNCHANGED <<ex, activeProcesses, sessions, isShuttingDown, sd,
                   transports, arrived>>

\* A transport closes on its own (its client ended the session).
TransportClose(h) ==
    /\ Up
    /\ transports[h].state = "open"
    /\ present(transports[h].sessionId)
    /\ Install(close(World, h))

\* SIGTERM or SIGINT: shutdown() runs up to its first suspension.
Signal ==
    /\ Up
    /\ sd.signals < MaxSignals
    /\ \E w \in shutdown([World EXCEPT !.sd.signals = @ + 1]) : Install(w)

\* `await transport.close()` returns and the loop goes on.
TransportClosed ==
    /\ Up
    /\ sd.pc = "closing"
    /\ \E w \in closeSessions(World) : Install(w)

Poll ==
    /\ Up
    /\ sd.interval = "active"
    /\ DOMAIN activeProcesses = {}
    /\ Install(poll(World))

GraceExpiry ==
    /\ Up
    /\ sd.grace = "pending"
    /\ Install(graceExpiry(World))

\* The callback of httpServer.close: process.exit(0).
Exit ==
    /\ sd.pc = "stopping"
    /\ sd' = [sd EXCEPT !.pc = "exited", !.exitCode = {0}]
    /\ UNCHANGED <<ex, activeProcesses, sessions, isShuttingDown, req,
                   transports, dispatched, arrived>>

\* The child of an execution exits: killed by a signal of killAllProcesses
\* (status null) or on its own (status 0).  The daemon does not read the
\* status.
ChildExit(e, code) ==
    /\ Up
    /\ code = IF ex[e].allTerm + ex[e].allKill > 0 THEN {} ELSE {0}
    /\ Close(e, code)

\* cancelProcess(id) is called.
CancelProcess(id) ==
    /\ Up
    /\ id \in DOMAIN activeProcesses =>
          ex[activeProcesses[id]].cancelTerm < MaxCancels
    /\ Install(cancelProcess(World, id))

\* A 2-second timer of cancelProcess fires.
CancelEscalate(e) ==
    /\ Up
    /\ ex[e].cancelTimers > 0
    /\ ex' = [ex EXCEPT ![e] =
                [@ EXCEPT !.cancelTimers = @ - 1, !.cancelKill = @ + 1]]
    /\ UNCHANGED <<activeProcesses, daemon>>

\* getActiveProcessCount() is called: a read.
GetActiveProcessCount ==
    /\ Up
    /\ getActiveProcessCount \in 0..Cardinality(Execs)
    /\ UNCHANGED vars

\* `await transport.close()` rejects inside shutdown(): the exception leaves
\* the loop and the function, whose promise the signal handler does not
\* hold.  What the unhandled rejection does depends on how node is run: it
\* ends the process with status 1 (crash), or is reported and the process
\* goes on without shutdown() (abandoned).
TransportCloseRejected(outcome) ==
    /\ Up
    /\ sd.pc = "closing"
    /\ sd' = IF outcome = "crash"
             THEN [sd EXCEPT !.pc = "exited", !.exitCode = {1}]
             ELSE [sd EXCEPT !.pc = "abandoned"]
    /\ UNCHANGED <<ex, activeProcesses, sessions, isShuttingDown, req,
                   transports, dispatched, arrived>>

DaemonNext ==
    \/ \E r \in Reqs, q \in Requests : Arrive(r, q)
    \/ \E r \in Reqs, h \in Handlers \cup {0} : Parsed(r, h)
    \/ \E r \in Reqs, sid \in Tokens : Connected(r, sid)
    \/ \E r \in Reqs, e \in Execs, id \in generateId(Taken), ok \in BOOLEAN :
          Validated(r, e, id, ok)
    \/ \E h \in Handlers : TransportClose(h)
    \/ Signal
    \/ TransportClosed
    \/ Poll
    \/ GraceExpiry
    \/ Exit
    \/ \E e \in Execs, code \in {{}, {0}} : ChildExit(e, code)

DaemonSpec == Init /\ [][DaemonNext]_vars

\* Timers fire, awaited promises settle and the listener's close callback
\* runs: the event loop leaves no ready callback waiting for ever.
DaemonFairSpec ==
    /\ DaemonSpec
    /\ WF_vars(TransportClosed)
    /\ WF_vars(Poll)
    /\ WF_vars(GraceExpiry)
    /\ WF_vars(Exit)

(* ------------------------------------------------------------ properties *)

\* The call has been made and neither 'close' nor 'error' has been handled.
Live(e) ==
    \/ ex[e].proc = "alive"
    \/ ex[e].proc = "failed" /\ ~ex[e].errorSeen

\* The process was spawned (no 'error' event belongs to this execution).
Started(e) ==
    \/ ex[e].proc = "alive"
    \/ ex[e].proc = "gone" /\ ~ex[e].errorSeen

\* The status a 'close' event reports, -1 when it carries none.
Reported(code) == IF code = {} THEN 0 - 1 ELSE CHOOSE c \in code : TRUE

\* C1: an execution is in the registry, under its own id, from its spawn
\* until its 'close' or 'error' handler has run and never afterwards, so
\* getActiveProcessCount() is the number of executions still live: when an
\* execution has completed the count is what it was before it started.
C1_RegistryHoldsExactlyTheLive ==
    /\ \A e \in Execs :
          IF Live(e)
          THEN /\ ex[e].id \in DOMAIN activeProcesses
               /\ activeProcesses[ex[e].id] = e
          ELSE ex[e].id \notin DOMAIN activeProcesses
    /\ getActiveProcessCount = Cardinality({e \in Execs : Live(e)})

\* One execution has completed while the other is still running: the count is 1.
C1_Witness ==
    \E e, f \in Execs :
       /\ ex[e].resolved /\ ex[e].proc = "gone"
       /\ Live(f)
       /\ getActiveProcessCount = 1

\* C2: once killChild has taken effect, no later firing of a terminator
\* changes killed, truncated or the recorded reason, sends another SIGTERM
\* or schedules another escalation: at most one of each per execution.
C2_FirstTerminatorWins ==
    [][\A e \in Execs :
         /\ ex'[e].sigterm <= 1
         /\ ex'[e].scheduled <= 1
         /\ ex[e].killed =>
               /\ ex'[e].killed
               /\ ex'[e].truncated = ex[e].truncated
               /\ ex'[e].killReason = ex[e].killReason
               /\ ex'[e].sigterm = ex[e].sigterm
               /\ ex'[e].scheduled = ex[e].scheduled]_vars

\* All three terminators have fired, the byte cap first.
C2_Witness ==
    \E e \in Execs :
       /\ ex[e].killReason = "truncation"
       /\ ex[e].timeoutFired
       /\ ex[e].hasSignal /\ ex[e].aborted
       /\ ex[e].sigterm = 1

\* C3: when the timeout timer fired on a started process before its 'close',
\* the result has killed = true and exitCode = -1 whatever code 'close' carries.
C3_TimeoutKills ==
    \A e \in Execs :
       (ex[e].resolved /\ Started(e) /\ ex[e].timeoutFired) =>
          /\ ex[e].result.killed
          /\ ex[e].result.exitCode = 0 - 1

\* The timeout fired first and the process then exited with status 0.
C3_Witness ==
    \E e \in Execs :
       /\ ex[e].resolved /\ Started(e)
       /\ ex[e].killReason = "timeout"
       /\ ex[e].closeCode = {0}

\* Bytes the process delivered on both streams.
DeliveredBytes(e) == byteLength(ex[e].outChunks) + byteLength(ex[e].errChunks)

EndsWith(text, last) == text # <<>> /\ text[Len(text)] = last

\* C4: whenever the bytes a started process delivered exceed maxOutputBytes,
\* the result has truncated = true and killed = true and its stdout ends
\* with the truncation marker naming the cap, whichever terminator fired first.
C4_OverflowIsReportedTruncated ==
    \A e \in Execs :
       (ex[e].resolved /\ Started(e)
          /\ DeliveredBytes(e) > ex[e].maxOutputBytes) =>
          /\ ex[e].result.truncated
          /\ ex[e].result.killed
          /\ EndsWith(ex[e].result.stdout,
                      TruncationMarker(ex[e].maxOutputBytes))

\* C5: in every result truncated = true implies killed = true.
C5_TruncatedImpliesKilled ==
    \A e \in Execs :
       ex[e].resolved => (ex[e].result.truncated => ex[e].result.killed)

\* One result is truncated (and killed), another is killed and not truncated.
C5_Witness ==
    \E e, f \in Execs :
       /\ ex[e].resolved /\ ex[e].result.truncated /\ ex[e].result.killed
       /\ ex[f].resolved /\ ex[f].result.killed /\ ~ex[f].result.truncated

\* C6: a result assembled by the 'close' handler has exitCode -1 when killed
\* is true, whatever code the event carries; otherwise the code the event
\* carries, and -1 when it carries none.
C6_ExitCodeOnClose ==
    \A e \in Execs :
       ex[e].resolvedBy = "close" =>
          ex[e].result.exitCode =
             IF ex[e].result.killed THEN 0 - 1
             ELSE IF ex[e].closeCode = {} THEN 0 - 1
             ELSE CHOOSE c \in ex[e].closeCode : TRUE

\* A process that was not killed closed without a code: exitCode is -1.
C6_Witness ==
    \E e \in Execs :
       /\ ex[e].resolvedBy = "close"
       /\ ~ex[e].result.killed
       /\ ex[e].closeCode = {}
       /\ ex[e].result.exitCode = 0 - 1

\* C7: a started process that closes before its timeout fires, within its
\* byte cap, its token not signalled before the close: killed = false,
\* truncated = false, exitCode is the reported status, and stdout / stderr
\* are exactly what was delivered on each stream, with no marker.
C7_NormalExit ==
    \A e \in Execs :
       (ex[e].resolved /\ Started(e)
          /\ ~ex[e].timeoutFired
          /\ ~ex[e].abortedLive
          /\ DeliveredBytes(e) <= ex[e].maxOutputBytes) =>
          /\ ~ex[e].result.killed
          /\ ~ex[e].result.truncated
          /\ ex[e].result.exitCode = Reported(ex[e].closeCode)
          /\ ex[e].result.stdout = ex[e].outChunks
          /\ ex[e].result.stderr = ex[e].errChunks

\* Output on both streams that fills the cap exactly, then exit status 1.
C7_Witness ==
    \E e \in Execs :
       /\ ex[e].resolved /\ Started(e)
       /\ ~ex[e].timeoutFired /\ ~ex[e].abortedLive
       /\ ex[e].outChunks # <<>> /\ ex[e].errChunks # <<>>
       /\ DeliveredBytes(e) = ex[e].maxOutputBytes
       /\ ex[e].closeCode = {1}

\* An already-signalled token terminates in the turn of the spawn, before
\* any chunk is handled.
CancelledAtCall ==
    \A e \in Execs :
       (ex[e].abortedAtCall /\ ex[e].proc # "none") =>
          /\ ex[e].killed
          /\ ex[e].killReason = "cancel"
          /\ ex[e].killedAt = 0

\* C8 as claimed: termination in the turn of the spawn for an
\* already-signalled token, and killed = true, exitCode = -1 in the result
\* whenever the token signalled before the 'close' event.
C8_CancelAlwaysKilled ==
    /\ CancelledAtCall
    /\ \A e \in Execs :
          (ex[e].resolved /\ ex[e].abortedLive) =>
             /\ ex[e].result.killed
             /\ ex[e].result.exitCode = 0 - 1

\* C8 amended: the same, for executions whose process was spawned.
C8_CancelKillsStarted ==
    /\ CancelledAtCall
    /\ \A e \in Execs :
          (ex[e].resolved /\ Started(e) /\ ex[e].abortedLive) =>
             /\ ex[e].result.killed
             /\ ex[e].result.exitCode = 0 - 1

\* A call with an already-signalled token whose process wrote output and
\* exited 0 before the timeout fired.
C8_Witness ==
    \E e \in Execs :
       /\ ex[e].abortedAtCall
       /\ ex[e].resolved /\ Started(e)
       /\ ~ex[e].timeoutFired
       /\ ex[e].nChunks > 0
       /\ ex[e].closeCode = {0}

\* C9: once the 'error' handler has run the promise is resolved with
\* exitCode -1, the error message as stderr, killed = false and
\* truncated = false, and the execution is out of the registry, also when a
\* terminator had fired before the event.
C9_SpawnErrorResult ==
    \A e \in Execs :
       ex[e].errorSeen =>
          /\ ex[e].resolved
          /\ ex[e].result.exitCode = 0 - 1
          /\ ex[e].result.stderr = ErrMessage
          /\ ~ex[e].result.killed
          /\ ~ex[e].result.truncated
          /\ ex[e].id \notin DOMAIN activeProcesses

\* The token was signalled at call time, killChild ran, then 'error' came.
C9_Witness ==
    \E e \in Execs :
       /\ ex[e].errorSeen
       /\ ex[e].abortedAtCall /\ ex[e].killed
       /\ ~ex[e].result.killed

\* The outcomes of a settled execution.
Outcomes(e) ==
    {o \in {"normal exit", "timeout kill", "cancel kill",
            "truncation kill", "spawn error"} :
       \/ o = "spawn error" /\ ex[e].resolvedBy = "error"
       \/ /\ ex[e].resolvedBy = "close"
          /\ \/ o = "normal exit" /\ ~ex[e].result.killed
             \/ /\ ex[e].result.killed
                /\ \/ o = "timeout kill" /\ ex[e].killReason = "timeout"
                   \/ o = "cancel kill" /\ ex[e].killReason = "cancel"
                   \/ o = "truncation kill" /\ ex[e].killReason = "truncation"}

\* C10: a settled promise stays settled with the same result and the same
\* outcome, exactly one of the five, whatever is delivered or fires later.
C10_OneTerminalResult ==
    [][\A e \in Execs :
         /\ ex'[e].resolved => Cardinality(Outcomes(e)') = 1
         /\ ex[e].resolved =>
               /\ ex'[e].resolved
               /\ ex'[e].result = ex[e].result
               /\ Outcomes(e)' = Outcomes(e)]_vars

\* Both 'error' and 'close' were delivered, and the token signalled after
\* the result was produced.
C10_Witness ==
    \E e \in Execs :
       /\ ex[e].errorSeen /\ ex[e].proc = "gone"
       /\ ex[e].resolved
       /\ ex[e].killReason = "cancel" /\ ~ex[e].abortedAtCall

Range(f) == {f[i] : i \in DOMAIN f}

\* C11: of two concurrent executions, each one's buffers and the result of its
\* process hold only what its own process delivered (and the marker of its
\* own cap), and every step (a chunk, a timer, a terminator, an exit) changes
\* the state of one execution only: the other's signals, flags, byte count,
\* timers and buffers stay as they were.
C11_ExecutionsIsolated ==
    [][/\ \A e \in Execs :
            LET marker == TruncationMarker(ex'[e].maxOutputBytes)
            IN  /\ Range(ex'[e].stdoutBuffer)
                      \subseteq Range(ex'[e].outChunks) \cup {marker}
                /\ Range(ex'[e].stderrBuffer) \subseteq Range(ex'[e].errChunks)
                /\ ex'[e].resolvedBy = "close" =>
                      /\ Range(ex'[e].result.stdout)
                            \subseteq Range(ex'[e].outChunks) \cup {marker}
                      /\ Range(ex'[e].result.stderr)
                            \subseteq Range(ex'[e].errChunks)
       /\ Cardinality({e \in Execs : ex'[e] # ex[e]}) <= 1]_vars

\* Both processes run and each has written; the first was killed for its
\* output and waits for its exit while the second goes on untouched.
C11_Witness ==
    /\ Live(1) /\ Live(2)
    /\ ex[1].killed /\ ex[1].truncated /\ ex[1].sigterm = 1
    /\ ex[1].outChunks # <<>> /\ ex[2].outChunks # <<>>
    /\ ~ex[2].killed /\ ex[2].sigterm = 0
    /\ ex[2].timeoutHandle = "pending"
    /\ ex[2].stdoutBuffer = <<"b">>

\* C12: the drain sequence runs at most once.  A termination signal that
\* arrives while the flag is set changes nothing but the count of signals: no
\* transport is closed, killAllProcesses and httpServer.close are not called
\* again.
C12_DrainRunsOnce ==
    [][/\ sd'.drains <= 1 /\ sd'.killAlls <= 1 /\ sd'.listenerCloses <= 1
       /\ (isShuttingDown /\ sd'.signals = sd.signals + 1) =>
             /\ sd' = [sd EXCEPT !.signals = @ + 1]
             /\ UNCHANGED <<ex, activeProcesses, sessions, isShuttingDown, req,
                            transports, dispatched, arrived>>]_vars

\* The second signal arrived after shutdown() had closed a session and
\* called killAllProcesses with a process in flight.
C12_Witness ==
    /\ sd.signals = 2 /\ sd.drains = 1
    /\ sd.closes >= 1 /\ sd.killAlls = 1
    /\ sd.pc = "terminating"

\* C13: once a termination signal has been delivered the daemon eventually
\* exits with status 0, with and without executions in flight, under fair
\* scheduling of timers and callbacks.
C13_SignalLeadsToExit ==
    (sd.signals > 0) ~> (sd.pc = "exited" /\ sd.exitCode = {0})

\* The daemon has exited with status 0 after the grace timer force-killed a
\* process that had not closed on SIGTERM.
C13_Witness ==
    /\ sd.pc = "exited" /\ sd.exitCode = {0}
    /\ sd.grace = "fired"
    /\ \E e \in Execs : ex[e].allTerm = 1 /\ ex[e].allKill = 1

Health == Request("GET", "/health", "none", "none")

\* The step is the arrival of a request while the flag is set.
ArrivalWhileShuttingDown == isShuttingDown /\ arrived' = arrived + 1

\* C14: a request that arrives while isShuttingDown is set is answered in the
\* same turn, without suspending and without touching the session map, the
\* transports, the registry or the executions; on /mcp the answer is the 503
\* 'Service Unavailable', for POST, GET and DELETE, known session id or not.
C14_ShuttingDownRejects ==
    [][ArrivalWhileShuttingDown =>
          /\ dispatched'.n # dispatched.n
          /\ dispatched'.request.path = "/mcp" =>
                /\ dispatched'.response = Unavailable
                /\ dispatched'.handler = 0
          /\ UNCHANGED <<ex, activeProcesses, sessions, isShuttingDown, req,
                         transports, sd>>]_vars

\* A POST naming a session that is in the map was answered 503.
C14_Witness ==
    /\ dispatched.flag /\ dispatched.known
    /\ dispatched.request.method = "POST"
    /\ dispatched.request.path = "/mcp"
    /\ dispatched.response = Unavailable

\* C15: GET /health is answered 200 {"status":"ok"} in every state of the
\* coordinator, also while isShuttingDown is set.
C15_HealthAlwaysOk ==
    [][(arrived' = arrived + 1 /\ dispatched'.n # dispatched.n
          /\ dispatched'.request = Health) =>
              dispatched'.response = HealthOk]_vars

\* C16: while isShuttingDown is set no session is added to the session map
\* and no process is spawned or registered, whatever request handlers were
\* suspended when the flag was set.
C16_NoNewWorkWhileDraining ==
    [][isShuttingDown =>
          /\ DOMAIN sessions' \subseteq DOMAIN sessions
          /\ DOMAIN activeProcesses' \subseteq DOMAIN activeProcesses
          /\ \A e \in Execs : ex[e].proc = "none" => ex'[e].proc = "none"]_vars

PostDecided ==
    /\ dispatched'.n # dispatched.n
    /\ dispatched'.request.method = "POST"
    /\ dispatched'.request.path = "/mcp"
    /\ ~dispatched'.flag

\* The step creates no transport and leaves the session map as it is.
NothingCreated ==
    /\ ~dispatched'.created
    /\ sessions' = sessions
    /\ transports' = transports

\* C18: handlePostMcp has four outcomes.  A known session id: forwarded to
\* the transport the map binds it to.  No id and an initialize body: a new
\* transport is created and gets the request.  An id that is not in the map,
\* whatever the body: 404 'Session not found'.  No id and another body: 400
\* 'Bad Request'.  The rejections create nothing and leave the map alone.
C18_PostDispatch ==
    [][PostDecided =>
          LET q == dispatched'.request
              d == dispatched'
          IN  IF present(q.sid) /\ q.sid \in DOMAIN sessions
              THEN /\ d.response = Forwarded
                   /\ d.handler = sessions[q.sid]
                   /\ NothingCreated
              ELSE IF ~present(q.sid) /\ q.body = "initialize"
              THEN /\ d.response = Forwarded
                   /\ d.created
                   /\ transports[d.handler].state = "none"
                   /\ transports'[d.handler].state = "open"
                   /\ sessions' = sessions
              ELSE IF present(q.sid)
              THEN /\ d.response = SessionNotFound
                   /\ d.response.status = 404
                   /\ NothingCreated
              ELSE /\ d.response = BadRequest
                   /\ d.response.status = 400
                   /\ NothingCreated]_vars

\* A handshake body under a session id that is not in the map got the 404,
\* while another session was in the map.
C18_Witness ==
    /\ dispatched.request = Request("POST", "/mcp", "t2", "initialize")
    /\ ~dispatched.flag /\ ~dispatched.known
    /\ dispatched.response = SessionNotFound
    /\ DOMAIN sessions = {"t1"}

\* The step is the decision on a GET or DELETE on /mcp that arrived while
\* the flag was not set.
SessionRequestDecided ==
    /\ dispatched'.n # dispatched.n
    /\ dispatched'.request.method \in {"GET", "DELETE"}
    /\ dispatched'.request.path = "/mcp"
    /\ ~dispatched'.flag

\* C19: GET and DELETE on /mcp: without a session id 400 'Missing
\* Mcp-Session-Id header'; with an id that is not in the map 404 'Session not
\* found'; with a known id forwarded to the transport bound to it.  The
\* handlers never change the session map themselves.
C19_GetDeleteDispatch ==
    [][SessionRequestDecided =>
          LET q == dispatched'.request
              d == dispatched'
          IN  /\ NothingCreated
              /\ IF ~present(q.sid)
                 THEN d.response = MissingHeader /\ d.response.status = 400
                 ELSE IF q.sid \notin DOMAIN sessions
                 THEN d.response = SessionNotFound /\ d.response.status = 404
                 ELSE d.response = Forwarded /\ d.handler = sessions[q.sid]]_vars

\* A DELETE naming a session that is not in the map got the 404 while
\* another session was in the map.
C19_Witness ==
    /\ dispatched.request = Request("DELETE", "/mcp", "t2", "none")
    /\ ~dispatched.flag
    /\ dispatched.response = SessionNotFound
    /\ DOMAIN sessions = {"t1"}

Injective(f) == \A a, b \in DOMAIN f : f[a] = f[b] => a = b

\* C20: the session map is injective and stable.  A token in the map keeps
\* its transport; it leaves the map only when its transport closes or the
\* map is cleared by shutdown(); a token that enters the map is bound to a
\* transport no token was bound to before.
C20_SessionsInjectiveAndStable ==
    [][/\ Injective(sessions')
       /\ \A t \in DOMAIN sessions :
             IF t \in DOMAIN sessions'
             THEN sessions'[t] = sessions[t]
             ELSE \/ transports'[sessions[t]].state = "closed"
                  \/ isShuttingDown' /\ sessions' = << >>
       /\ \A t \in DOMAIN sessions' \ DOMAIN sessions :
             /\ transports[sessions'[t]].sessionId = "none"
             /\ \A u \in DOMAIN sessions : sessions[u] # sessions'[t]]_vars

\* Two handshakes made two sessions; one transport has closed and left the
\* map, the other is still bound to its token.
C20_Witness ==
    \E t \in Tokens, h, g \in Handlers :
       /\ DOMAIN sessions = {t} /\ sessions[t] = h
       /\ transports[h].state = "open" /\ transports[h].sessionId = t
       /\ g # h
       /\ transports[g].state = "closed" /\ present(transports[g].sessionId)

\* Tokens of transports that have closed.
ClosedTokens ==
    {transports[h].sessionId :
        h \in {g \in Handlers : transports[g].state = "closed"}} \ {"none"}

\* The step closes transport h.
Closes(h) == transports[h].state = "open" /\ transports'[h].state = "closed"

\* The step decides a request on /mcp that carries the token of a transport
\* closed before the step.
ClosedTokenDecided ==
    /\ dispatched'.n # dispatched.n
    /\ dispatched'.request.path = "/mcp"
    /\ dispatched'.request.method \in {"POST", "GET", "DELETE"}
    /\ dispatched'.request.sid \in ClosedTokens

\* The close hook removes the token of the closing transport and no other,
\* and a token removed stays out of the map.
CloseRemovesOwnToken ==
    /\ \A h \in Handlers :
          Closes(h) =>
             DOMAIN sessions' = DOMAIN sessions \ {transports[h].sessionId}
    /\ ClosedTokens' \cap DOMAIN sessions' = {}

\* C21 as stated: when a transport closes (on its own or closed by
\* shutdown()) its token and no other leaves the map, and every later request
\* carrying that token is answered 404 'Session not found'.
C21_ClosedTokenNotFound ==
    [][/\ CloseRemovesOwnToken
       /\ ClosedTokenDecided => dispatched'.response = SessionNotFound]_vars

\* C21 amended: the later request is answered 'Session not found' when it
\* arrived while the flag was not set; one that arrives while the daemon is
\* shutting down gets the 503 before any lookup.
C21_ClosedTokenRejected ==
    [][/\ CloseRemovesOwnToken
       /\ ClosedTokenDecided =>
             dispatched'.response =
                IF dispatched'.flag THEN Unavailable ELSE SessionNotFound]_vars

\* A request carrying the token of a closed transport got the 404 while the
\* other session stayed in the map.
C21_Witness ==
    \E h \in Handlers :
       /\ transports[h].state = "closed"
       /\ present(transports[h].sessionId)
       /\ dispatched.request.sid = transports[h].sessionId
       /\ dispatched.response = SessionNotFound
       /\ DOMAIN sessions # {}

\* The step is the call of killAllProcesses.
KillAllCalled == sd'.killAlls = sd.killAlls + 1

\* The step is a poll of killAllProcesses that stops the polling.
PollStops ==
    sd.interval = "active" /\ sd'.interval = "cleared" /\ sd'.grace = sd.grace

\* The step is the expiry of the grace timer.
GraceExpires == sd.grace = "pending" /\ sd'.grace = "fired"

\* shutdown() is waiting for killAllProcesses.
Awaiting == sd.pc = "terminating"

\* C22: killAllProcesses completes at the poll that finds the registry
\* empty, and at the expiry of the grace timer whatever is still tracked; while
\* it is awaited the grace timer is pending; called on an empty registry it
\* completes in the same turn, sets no timer and sends no signal.  It
\* completes in no other way.
C22_TerminateAllCompletes ==
    [][/\ Awaiting' => sd'.grace = "pending"
       /\ (Awaiting /\ PollStops) =>
             DOMAIN activeProcesses = {} /\ ~Awaiting'
       /\ (Awaiting /\ GraceExpires) => ~Awaiting'
       /\ (Awaiting /\ ~Awaiting') => (PollStops \/ GraceExpires)
       /\ KillAllCalled =>
             IF DOMAIN activeProcesses = {}
             THEN /\ ~Awaiting'
                  /\ sd'.interval = "none" /\ sd'.grace = "none"
                  /\ ex' = ex
             ELSE /\ Awaiting'
                  /\ sd'.interval = "active"]_vars

\* killAllProcesses completed at grace expiry with a process still tracked.
C22_Witness ==
    /\ sd.pc = "stopping"
    /\ sd.grace = "fired"
    /\ DOMAIN activeProcesses # {}

\* Executions whose process is in the registry.
Registered == {activeProcesses[i] : i \in DOMAIN activeProcesses}

\* 1 for the executions of S, 0 for the others.
OneIf(e, S) == IF e \in S THEN 1 ELSE 0

\* C23: killAllProcesses sends SIGTERM to every process in the registry at
\* the call and at no other time; it sends SIGKILL when the grace timer fires,
\* to exactly the processes in the registry at that moment, and in no other
\* step.
C23_TerminateThenKillAtExpiry ==
    [][\A e \in Execs :
         /\ ex'[e].allTerm = ex[e].allTerm +
               (IF KillAllCalled THEN OneIf(e, Registered) ELSE 0)
         /\ ex'[e].allKill = ex[e].allKill +
               (IF GraceExpires THEN OneIf(e, Registered) ELSE 0)]_vars

\* Of two processes sent SIGTERM one closed within the grace period and got
\* no SIGKILL, the other was sent SIGKILL at expiry.
C23_Witness ==
    \E e, f \in Execs :
       /\ ex[e].allTerm = 1 /\ ex[e].allKill = 0 /\ ex[e].proc = "gone"
       /\ ex[f].allTerm = 1 /\ ex[f].allKill = 1

\* The step ends the validation of the tool call of request slot r.
ValidationEnds(r) == req[r].pc = "validating" /\ req'[r].pc # "validating"

RECURSIVE Concat(_, _)
Concat(calls, stream) ==
    IF calls = <<>> THEN <<>>
    ELSE (IF Head(calls).stream = stream THEN Head(calls).text ELSE <<>>)
            \o Concat(Tail(calls), stream)

\* A buffer without the truncation marker.
Unmarked(buffer, cap) ==
    SelectSeq(buffer, LAMBDA c : c # TruncationMarker(cap))

\* C25: with a progress callback, what the callback was given for a stream,
\* concatenated in order, is the stream's buffer before any truncation
\* marker, also after the chunk that reaches the cap.
C25_ProgressEqualsBuffer ==
    \A e \in Execs :
       (Started(e) /\ ex[e].onProgress) =>
          /\ Concat(ex[e].progress, "stdout") =
                Unmarked(ex[e].stdoutBuffer, ex[e].maxOutputBytes)
          /\ Concat(ex[e].progress, "stderr") = ex[e].stderrBuffer

\* Position of shutdown() in its sequence.
Rank(pc) ==
    CASE pc = "running"     -> 0
      [] pc = "closing"     -> 1
      [] pc = "terminating" -> 2
      [] pc = "stopping"    -> 3
      [] pc = "exited"      -> 4

\* The step calls httpServer.closeAllConnections() and httpServer.close().
ListenerStops == sd'.listenerCloses = sd.listenerCloses + 1

\* C27: the steps of shutdown() come in one order.  The flag is set before
\* anything else; killAllProcesses is called with the session map empty and
\* every transport that held a session closed; the listener is stopped only
\* in the step in which killAllProcesses completes (called on an empty
\* registry, or at the emptying poll, or at grace expiry); the process exits
\* only after that, with status 0; the sequence never goes back.
C27_DrainOrder ==
    [][/\ Rank(sd'.pc) >= Rank(sd.pc)
       /\ sd'.pc # "running" => isShuttingDown'
       /\ KillAllCalled =>
             /\ isShuttingDown'
             /\ sessions' = << >>
             /\ \A h \in Handlers :
                   present(transports'[h].sessionId) =>
                      transports'[h].state = "closed"
             /\ sd.listenerCloses = 0
       /\ ListenerStops =>
             /\ sd'.killAlls = 1
             /\ \/ KillAllCalled /\ DOMAIN activeProcesses = {}
                \/ ~KillAllCalled /\ (PollStops \/ GraceExpires)
       /\ sd'.pc = "exited" =>
             /\ sd'.listenerCloses = 1 /\ sd'.killAlls = 1
             /\ sd'.drains = 1
             /\ sd'.exitCode = {0}
       /\ sd'.pc # "exited" => sd'.exitCode = {}]_vars

\* The daemon exited after closing a session, waiting for a process and
\* being released by the poll that found the registry empty.
C27_Witness ==
    /\ sd.pc = "exited"
    /\ sd.closes >= 1
    /\ sd.interval = "cleared" /\ sd.grace = "pending"
    /\ \E e \in Execs : ex[e].allTerm = 1 /\ ex[e].proc = "gone"

IsPrefix(p, q) == Len(p) <= Len(q) /\ SubSeq(q, 1, Len(p)) = p

\* Everything the process of e has delivered is one byte per character.
OneBytePerChar(e) ==
    \A c \in Range(ex[e].outChunks) \cup Range(ex[e].errChunks) :
       ByteWidth(c) = 1

\* C28: the byte counter of an execution never decreases and never exceeds
\* maxOutputBytes; when the output is one byte per character it equals the
\* combined size of the two buffers (the marker aside), which is the bytes
\* delivered up to the cap: each buffer is a prefix of what its stream
\* delivered, the overflowing chunk contributes the prefix that fits and
\* later chunks nothing.
C28_CapBoundsBuffers ==
    [][\A e \in Execs :
         ex'[e].proc # "none" =>
            LET out == Unmarked(ex'[e].stdoutBuffer, ex'[e].maxOutputBytes)
                err == ex'[e].stderrBuffer
            IN  /\ ex'[e].totalBytes >= ex[e].totalBytes
                /\ ex'[e].totalBytes <= ex'[e].maxOutputBytes
                /\ OneBytePerChar(e)' =>
                      /\ ex'[e].totalBytes = Len(out) + Len(err)
                      /\ ex'[e].totalBytes =
                            Min(ex'[e].maxOutputBytes, DeliveredBytes(e)')
                      /\ IsPrefix(out, ex'[e].outChunks)
                      /\ IsPrefix(err, ex'[e].errChunks)]_vars

\* Under a cap of one byte the chunk 'ab' left its prefix 'a' in the buffer
\* and the chunk that came after it left nothing.
C28_Witness ==
    /\ ex[1].maxOutputBytes = 1
    /\ ex[1].outChunks = <<"a", "b">> /\ ex[1].errChunks = <<"a">>
    /\ ex[1].stdoutBuffer = <<"a">> /\ ex[1].stderrBuffer = <<>>
    /\ ex[1].totalBytes = 1
    /\ ex[1].truncated

\* C29: the escalation SIGKILL of an execution is sent only after that
\* execution's SIGTERM, only while its escalation timer is pending and only to
\* a process that has not closed; the 'close' event cancels a pending
\* escalation, and after it no SIGKILL is sent.
C29_EscalationOnlyWhileOpen ==
    [][\A e \in Execs :
         /\ ex'[e].sigkill > ex[e].sigkill =>
               /\ ex[e].sigterm >= 1
               /\ ex[e].killHandle = "pending"
               /\ ex[e].proc = "alive"
         /\ (ex[e].proc = "alive" /\ ex'[e].proc = "gone") =>
               ex'[e].killHandle # "pending"
         /\ ex[e].proc = "gone" =>
               /\ ex'[e].sigkill = ex[e].sigkill
               /\ ex'[e].sigterm = ex[e].sigterm]_vars

\* The 'close' or the 'error' event of e has been handled.
Handled(e) == ex[e].proc = "gone" \/ ex[e].errorSeen

\* C30: once 'close' or 'error' has been handled the timeout timer is not
\* pending, it never fires, and no termination by timeout takes effect: the
\* killed flag is not set by it.
C30_NoTimeoutAfterClose ==
    [][\A e \in Execs :
         /\ Handled(e)' => ex'[e].timeoutHandle # "pending"
         /\ Handled(e) =>
               /\ ex'[e].timeoutFired = ex[e].timeoutFired
               /\ ex'[e].timeoutHandle = ex[e].timeoutHandle
               /\ ex'[e].killReason # ex[e].killReason =>
                     ex'[e].killReason # "timeout"]_vars

\* The process exited on its own before its timeout: the timer was cleared
\* and the result is not killed.
C30_Witness ==
    \E e \in Execs :
       /\ ex[e].proc = "gone" /\ ex[e].resolvedBy = "close"
       /\ ex[e].timeoutHandle = "cleared"
       /\ ~ex[e].timeoutFired
       /\ ~ex[e].result.killed /\ ~ex[e].killed

\* The step calls executeCommand for e.
Called(e) == ex[e].proc = "none" /\ ex'[e].proc # "none"

\* The step handles an output chunk, a timer firing, a cancellation by the
\* abort listener, or the 'close' or 'error' event of e.
HandlerRuns(e) ==
    \/ ex'[e].nChunks # ex[e].nChunks
    \/ ex'[e].timeoutFired # ex[e].timeoutFired
    \/ ex'[e].sigkill # ex[e].sigkill
    \/ ex[e].listening /\ ~ex'[e].listening
    \/ ex'[e].errorSeen # ex[e].errorSeen
    \/ ex[e].proc # "gone" /\ ex'[e].proc = "gone"

\* C31: the turn that calls executeCommand leaves the execution in the
\* registry under its id with none of its handlers run, and every later
\* handler of a live execution finds it there: no chunk, timer firing,
\* cancellation, 'close' or 'error' is handled before the registration.
C31_RegisteredInSpawnTurn ==
    [][\A e \in Execs :
         /\ Called(e) =>
               /\ ~HandlerRuns(e)
               /\ ex'[e].id \in DOMAIN activeProcesses'
               /\ activeProcesses'[ex'[e].id] = e
         /\ HandlerRuns(e) =>
               /\ ex[e].proc # "none"
               /\ Live(e) => /\ ex[e].id \in DOMAIN activeProcesses
                             /\ activeProcesses[ex[e].id] = e]_vars

\* A call made with an already-signalled token, terminated in the turn of
\* the spawn, is in the registry when its first chunk is handled.
C31_Witness ==
    \E e \in Execs :
       /\ ex[e].abortedAtCall /\ ex[e].killedAt = 0
       /\ ex[e].nChunks = 1
       /\ Live(e)
       /\ ex[e].id \in DOMAIN activeProcesses

\* A handshake: POST /mcp with an initialize body and no session id.
Handshake == Request("POST", "/mcp", "none", "initialize")

\* No request has arrived yet.
FirstRequest == arrived = 0

\* The registry with everything that holds a reference to it: the executor's
\* call, 'close' and 'error' handlers and its timers, cancelProcess and its
\* timer, getActiveProcessCount, the session router serving one handshake,
\* and the shutdown coordinator with killAllProcesses.
RegistryNext ==
    \/ \E e \in Execs, id \in generateId(Taken), spawned \in BOOLEAN :
          /\ e \in First(Execs, {x \in Execs : ex[x].proc # "none"})
          /\ Up
          /\ ExecuteCommand(e, id, 1, FALSE, FALSE, spawned, FALSE)
    \/ \E e \in Execs : Up /\ Timeout(e)
    \/ \E e \in Execs : Up /\ Escalate(e)
    \/ \E e \in Execs, code \in {{0}, SpawnErrno} : Up /\ Close(e, code)
    \/ \E e \in Execs : Up /\ Error(e)
    \/ \E id \in Ids : CancelProcess(id)
    \/ \E e \in Execs : CancelEscalate(e)
    \/ GetActiveProcessCount
    \/ \E r \in Reqs : FirstRequest /\ Arrive(r, Handshake)
    \/ \E r \in Reqs, h \in Handlers : Parsed(r, h)
    \/ \E r \in Reqs, sid \in Tokens : Connected(r, sid)
    \/ Signal
    \/ TransportClosed
    \/ Poll
    \/ GraceExpiry
    \/ Exit

RegistrySpec == Init /\ [][RegistryNext]_vars

\* The 'close' or the 'error' handler of e runs its cleanup in the step.
CleansUp(e) == Live(e) /\ ~Live(e)'

\* The step belongs to killAllProcesses, cancelProcess, the session router
\* or the shutdown coordinator.
OutsideExecutor ==
    \/ sd' # sd
    \/ sessions' # sessions \/ transports' # transports
    \/ req' # req \/ dispatched' # dispatched
    \/ \E e \in Execs :
          \/ ex'[e].allTerm # ex[e].allTerm
          \/ ex'[e].allKill # ex[e].allKill
          \/ ex'[e].cancelTerm # ex[e].cancelTerm
          \/ ex'[e].cancelKill # ex[e].cancelKill

\* C32: the key set of the registry grows only in the turn of a call of
\* executeCommand, by that call's id, and shrinks only in the 'close' or
\* 'error' cleanup of an execution, by that execution's id; the steps of
\* killAllProcesses, cancelProcess, getActiveProcessCount, the session
\* router and the shutdown coordinator leave the registry as it is.
C32_OnlyExecutorMutatesRegistry ==
    [][/\ DOMAIN activeProcesses' # DOMAIN activeProcesses =>
             \E e \in Execs :
                \/ /\ Called(e)
                   /\ DOMAIN activeProcesses' =
                         DOMAIN activeProcesses \cup {ex'[e].id}
                \/ /\ CleansUp(e)
                   /\ DOMAIN activeProcesses' =
                         DOMAIN activeProcesses \ {ex[e].id}
       /\ OutsideExecutor => activeProcesses' = activeProcesses]_vars

\* cancelProcess and killAllProcesses have both signalled a process, the
\* grace timer has fired, and the process is still in the registry.
C32_Witness ==
    \E e \in Execs :
       /\ ex[e].cancelTerm = 1 /\ ex[e].cancelKill = 1
       /\ ex[e].allTerm = 1 /\ ex[e].allKill = 1
       /\ Live(e)
       /\ ex[e].id \in DOMAIN activeProcesses
       /\ DOMAIN sessions = {} /\ \E h \in Handlers : transports[h].state = "closed"

\* C33: a call of executeCommand takes an id that no execution, running or
\* completed, has had and that is not in the registry, so registering never
\* overwrites an entry; and the entry a cleanup removes is the execution's own.
C33_IdsUnique ==
    [][\A e \in Execs :
         /\ Called(e) =>
               /\ ex'[e].id \notin DOMAIN activeProcesses
               /\ \A f \in Execs \ {e} :
                     ex[f].proc # "none" => ex[f].id # ex'[e].id
         /\ (CleansUp(e) /\ ex[e].id \in DOMAIN activeProcesses) =>
               activeProcesses[ex[e].id] = e]_vars

\* Requests of a client that sends bodies that do not parse among its
\* handshakes, tool calls and health checks.
FaultyRequests ==
    Malformed
    \cup {Handshake, Health}
    \cup {Request("POST", "/mcp", sid, "call") : sid \in Tokens}

\* The daemon with such a client and a protocol handler that can throw.
ErrorNext ==
    \/ \E r \in Reqs, q \in FaultyRequests : Arrive(r, q)
    \/ \E r \in Reqs, h \in Handlers \cup {0} : Parsed(r, h)
    \/ \E r \in Reqs, sid \in Tokens : Connected(r, sid)
    \/ \E r \in Reqs, e \in Execs, id \in generateId(Taken), ok \in BOOLEAN :
          Validated(r, e, id, ok)
    \/ \E r \in Reqs, headersSent \in BOOLEAN : Thrown(r, headersSent)
    \/ Signal
    \/ TransportClosed
    \/ Poll
    \/ GraceExpiry
    \/ Exit
    \/ \E e \in Execs, code \in {{}, {0}} : ChildExit(e, code)

ErrorSpec == Init /\ [][ErrorNext]_vars

\* The step is a decision of the request handler made by its catch block.
Caught == dispatched'.n # dispatched.n /\ dispatched'.thrown

\* The step settles parseBody for a body that does not parse.
ParseFails ==
    \E r \in Reqs :
       /\ req[r].pc = "parsing" /\ req[r].request.body = "malformed"
       /\ req'[r].pc = "idle"
       /\ dispatched'.n # dispatched.n

\* C34: an exception while a request on /mcp is handled, a body that does not
\* parse included, is answered with the internal error (500) exactly when no
\* response headers were sent; the step leaves the session map, the registry,
\* the shutting-down flag, the transports and the coordinator as they were.
C34_InternalErrorAnswered ==
    [][/\ ParseFails => Caught /\ dispatched'.caught = "unsent"
       /\ Caught =>
             /\ dispatched'.request.path = "/mcp"
             /\ dispatched'.response = InternalError <=>
                   dispatched'.caught = "unsent"
             /\ dispatched'.response =
                   IF dispatched'.caught = "sent" THEN NoResponse
                                                  ELSE InternalError
             /\ UNCHANGED <<sessions, activeProcesses, isShuttingDown, ex,
                            sd, transports>>]_vars

\* After a body that did not parse was answered with the internal error, a
\* request of a session was forwarded to its protocol handler.
C34_Witness ==
    /\ dispatched.caught = "unsent"
    /\ ~dispatched.thrown
    /\ dispatched.response = Forwarded /\ dispatched.known
    /\ ~isShuttingDown

\* Why a decision rejected a request on the session endpoint: the session id
\* names no session (unknown), a GET or DELETE carries none (missing), a POST
\* without one is not a handshake (malformed); none for every other decision.
Cause(d) ==
    LET q == d.request
    IN  IF d.flag \/ d.thrown \/ q.path # "/mcp"
           \/ q.method \notin {"POST", "GET", "DELETE"}
        THEN "none"
        ELSE IF present(q.sid)
        THEN (IF d.known THEN "none" ELSE "unknown")
        ELSE IF q.method \in {"GET", "DELETE"}
        THEN "missing"
        ELSE IF isInitializeRequest(q.body) THEN "none" ELSE "malformed"

\* What a client can tell responses apart by: the status and the error code.
Code(response) == <<response.status, response.code>>

\* C35: two successive decisions that reject requests for different causes
\* (unknown session id, missing session id, malformed first request) answer
\* with different status / error code pairs.
C35_DistinctCodePerCause ==
    [][(/\ dispatched'.n # dispatched.n
        /\ Cause(dispatched) # "none"
        /\ Cause(dispatched') # "none"
        /\ Cause(dispatched) # Cause(dispatched')) =>
          Code(dispatched.response) # Code(dispatched'.response)]_vars

\* C36: once the 'close' or the 'error' handler of an execution has run,
\* neither of its timers is pending, it sends no SIGTERM and no SIGKILL to
\* the process group, and a cancel token that signals later sets no flag and
\* schedules no escalation.
C36_QuietAfterClose ==
    [][\A e \in Execs :
         /\ Handled(e)' =>
               /\ ex'[e].timeoutHandle # "pending"
               /\ ex'[e].killHandle # "pending"
         /\ Handled(e) =>
               /\ ex'[e].sigterm = ex[e].sigterm
               /\ ex'[e].sigkill = ex[e].sigkill
               /\ ex'[e].killed = ex[e].killed
               /\ ex'[e].scheduled = ex[e].scheduled]_vars

OutsideNext ==
    \/ Up /\ Step({1}, {1}, OwnOutput, ExitCodes, {FALSE}, Taken)
    \/ \E id \in Ids : CancelProcess(id)
    \/ \E e \in Execs : CancelEscalate(e)
    \/ Signal
    \/ Poll
    \/ GraceExpiry
    \/ Exit

OutsideSpec == Init /\ [][OutsideNext]_vars

\* One of the execution's own terminators fired before its 'close': the
\* timeout timer, the byte cap, or the cancel token.
OwnTerminatorFired(e) ==
    \/ ex[e].timeoutFired
    \/ ex[e].abortedLive
    \/ DeliveredBytes(e) > ex[e].maxOutputBytes

\* cancelProcess or killAllProcesses signalled the process of e.
SignalledFromOutside(e) ==
    ex[e].cancelTerm + ex[e].cancelKill + ex[e].allTerm + ex[e].allKill > 0

\* What C38 says of the result of e.
KilledIffOwnTerminator(e) ==
    /\ ex[e].result.killed <=> OwnTerminatorFired(e)
    /\ ~OwnTerminatorFired(e) =>
          /\ ~ex[e].result.truncated
          /\ ex[e].result.exitCode = Reported(ex[e].closeCode)

\* C38 as claimed: in every result killed is true exactly when one of the
\* execution's own terminators fired before the 'close' event; a process
\* terminated only from outside resolves with killed = false, truncated =
\* false and the reported exit status, -1 when there is none.
C38_KilledIffOwnTerminator ==
    \A e \in Execs : ex[e].proc = "gone" => KilledIffOwnTerminator(e)

\* C38 amended: the same, for executions whose process was spawned.
C38_KilledIffOwnTerminatorStarted ==
    \A e \in Execs :
       (ex[e].proc = "gone" /\ Started(e)) => KilledIffOwnTerminator(e)

\* A process signalled by cancelProcess and by killAllProcesses, killed at
\* the expiry of the grace period, closed without an exit status: the result
\* is not killed, not truncated, exitCode -1.
C38_Witness ==
    \E e \in Execs :
       /\ ex[e].proc = "gone" /\ Started(e)
       /\ ex[e].cancelTerm = 1 /\ ex[e].allTerm = 1 /\ ex[e].allKill = 1
       /\ ~OwnTerminatorFired(e)
       /\ ex[e].closeCode = {}
       /\ ~ex[e].result.killed /\ ex[e].result.exitCode = 0 - 1

\* The call of killAllProcesses has been made and its promise has resolved.
Completed == sd.killAlls > 0 /\ sd.interval # "active"

\* C39: once killAllProcesses has completed it sends no signal: a process
\* registered after the poll found the registry empty is not sent SIGKILL
\* when the grace period of that call ends.
C39_CompletedSendsNothing ==
    [][Completed =>
          \A e \in Execs :
             /\ ex'[e].allTerm = ex[e].allTerm
             /\ ex'[e].allKill = ex[e].allKill]_vars

\* The daemon with session handlers whose close() can fail.
CloseFailNext ==
    \/ DaemonNext
    \/ \E outcome \in {"crash", "abandoned"} : TransportCloseRejected(outcome)

CloseFailSpec ==
    /\ Init /\ [][CloseFailNext]_vars
    /\ WF_vars(TransportClosed)
    /\ WF_vars(Poll)
    /\ WF_vars(GraceExpiry)
    /\ WF_vars(Exit)

\* A close() of shutdown() has rejected.
CloseFailed == sd.pc = "abandoned" \/ sd.exitCode = {1}

\* C40: when the close() of a session handler rejects during shutdown, the
\* coordinator still goes on to call killAllProcesses and the process exits
\* after that call.
C40_DrainSurvivesCloseFailure ==
    CloseFailed ~> (sd.pc = "exited" /\ sd.killAlls > 0)

====
